---- MODULE Spec2Model ----
(***************************************************************************)
(* RateRadarPA: the retry supervisors and page workflows of the two export *)
(* scrapers (pagasswitch_export_scraper.py, papowerswitch_export_scraper.py)*)
(* One behaviour is one invocation of one scraper's main().  The browser,  *)
(* the remote page and the filesystem are the environment: every outcome   *)
(* they can produce is drawn with \E in the action that meets it.          *)
(* DataSpec applies the data functions of the scrapers to inputs of their  *)
(* own; AppSpec is one "Fetch Rates" request of the presentation layer     *)
(* (app.py), which runs a scraper as a subprocess.                         *)
(***************************************************************************)
EXTENDS Integers, Sequences, FiniteSets, TLC

\* ------------------------------------------------------------------ bounds
\* largest value of --max-retries explored
MaxRetriesBound == 3
\* most files in a directory listing, and the latest modification time
MaxFiles == 3
MaxMtime == 3
\* most distinct elements the strategies of one chain can find
MaxElements == 2
\* most rows in a raw export
MaxRows == 3
\* most files in the output directory before a request, and their latest
\* creation time
MaxDisk == 2
MaxCtime == 2

\* ------------------------------------------------------- program constants
Categories == {"gas", "power"}
\* default of the zipcode parameter of PAPowerSwitchExportScraper.__init__
DefaultZipcode == "19348"
\* postal codes a caller may pass with --zipcode
Zipcodes == {DefaultZipcode, "15201"}
\* self.driver = None
NoDriver == 0
\* no results page has been requested yet in this attempt
NoPage == [exp |-> FALSE, flt |-> FALSE, loaded |-> FALSE]

\* the four filter sub-steps apply_filters calls, in call order
FilterSteps ==
    <<"fixed_price", "term_length_any", "terms_conditions", "regular_residential_service">>
\* what one filter sub-step can meet: the control was set, or anything else
\* (control not resolved, click refused natively and by script, any exception)
FilterOutcomes == {"applied", "failed"}

\* (the canonical table written before the derived column is computed)
GasStages_writeEarly ==
    <<"locate", "copy_raw", "read", "filter", "sort", "drop", "reorder", "write", "derive">>

\* the effects of process_csv_file that precede its return True, in code order
GasStages ==
    <<"locate", "copy_raw", "read", "filter", "sort", "drop", "reorder", "derive", "write">>

\* (the canonical table written before the raw export is copied)
PowerStages_writeFirst ==
    <<"exists", "read", "write", "copy_raw", "drop", "filter", "sort", "reorder">>

\* the same for process_csv_file of the electricity scraper
PowerStages ==
    <<"exists", "read", "copy_raw", "drop", "filter", "sort", "reorder", "write">>

VARIABLES
    category,        \* which scraper's main() runs
    max_retries,     \* args.max_retries
    zipcode,         \* args.zipcode
    pc,              \* control point of main()/run()
    fin,             \* how the try statement of power run() is being left
    main_retry,      \* retry_count of gas main()
    main_success,    \* success of gas main()
    retry_count,     \* retry_count of gas run()
    attempt,         \* attempt of power run() (the for index)
    success,         \* success of run()
    driver,          \* self.driver: a browser id, or NoDriver
    live,            \* browser sessions created and not yet quit
    used,            \* browser sessions some attempt has navigated with
    created,         \* number of browser sessions created so far
    timestamp,       \* self.timestamp of the current scraper instance
    page,            \* what the results page of this attempt carries
    trail,           \* workflow states this attempt has visited
    failCause,       \* why this attempt failed ("none" while it has not)
    filterLog,       \* filter sub-steps this attempt ran, with outcomes
    normLog,         \* process_csv_file effects this attempt completed
    exportClicked,   \* the export control was invoked in this attempt
    newFile,         \* that invocation put a new .csv into the directory
    staleUsed,       \* the newest .csv this attempt found is over a minute old
    staleWarned,     \* the "older than 1 minute" warning was logged for it
    diag,            \* what the failing step's exit did about a diagnostic snapshot
    snapshots,       \* workflow states of this attempt whose page was snapshotted
    interactions,    \* set-value and click interactions of this attempt, in order
    dirCsv,          \* the download directory holds some .csv file
    rawCopies,       \* timestamps of the raw export copies written
    canonical,       \* canonical (filtered) table files written
    canonWrites,     \* number of times a canonical table file was written
    iterations,      \* attempts begun (retry-loop iterations with an attempt)
    workflowStarts,  \* calls of the navigation step
    gapSleeps,       \* retry-delay sleeps since the last attempt began
    gapAtStart,      \* gapSleeps as it was when the last attempt began
    everResults,     \* some attempt reached ResultsLoaded
    everCompleted,   \* some attempt reached Completed
    exitStatus,      \* sys.exit status, -1 while running
    \* the data functions on their own (export locator, fallback chains,
    \* normalization), applied to inputs drawn from bounded sets
    dpc,             \* which function is being applied, and how far
    listing,         \* a directory listing: files in listing order
    located,         \* index in `listing` of the file the locator returned, 0 = None
    target,          \* the target a fallback chain resolves
    doc,             \* per strategy of the chain: the element it finds, 0 = none
    picked,          \* what the chain resolved to, and how many strategies it tried
    raw,             \* a raw export table
    out,             \* the table process_csv_file wrote for `raw`
    again,           \* the table process_csv_file wrote for `out`
    skips,           \* columns process_csv_file logged a skipped step for
    \* the presentation layer (app.py)
    appPc,           \* control point of the button handler in main()
    zipInput,        \* zipcode: the text of the ZIP code input
    energy_type,     \* the selected energy type
    disk,            \* files in output/
    procOutcome,     \* how the scraper subprocess ended
    lookups,         \* calls of get_latest_csv
    latest_file,     \* what get_latest_csv returned
    view             \* what the page shows

vars ==
    <<category, max_retries, zipcode, pc, fin, main_retry, main_success, retry_count,
      attempt, success, driver, live, used, created, timestamp, page, trail, failCause,
      filterLog, normLog, exportClicked, newFile, staleUsed, staleWarned, diag,
      snapshots, interactions, dirCsv, rawCopies, canonical, canonWrites,
      iterations, workflowStarts, gapSleeps, gapAtStart,
      everResults, everCompleted, exitStatus, dpc, listing, located, target, doc,
      picked, raw, out, again, skips, appPc, zipInput, energy_type, disk,
      procOutcome, lookups, latest_file, view>>

\* groups of variables, for UNCHANGED
cfgVars == <<category, max_retries, zipcode>>
gasLoopVars == <<main_retry, main_success, retry_count>>
browserVars == <<driver, live, used, created, timestamp>>
exportVars == <<newFile, staleUsed, staleWarned>>
diagVars == <<diag, snapshots, interactions>>
attemptVars ==
    <<page, trail, failCause, filterLog, normLog, exportClicked, exportVars, diagVars>>
fileVars == <<dirCsv, rawCopies, canonical, canonWrites>>
countVars == <<iterations, workflowStarts, gapSleeps, gapAtStart>>
fnVars == <<dpc, listing, located, target, doc, picked, raw, out, again, skips>>
appVars == <<appPc, zipInput, energy_type, disk, procOutcome, lookups, latest_file, view>>
\* what an invocation of a scraper leaves alone
dataVars == <<fnVars, appVars>>

\* ------------------------------------------------------ presentation layer
EnergyTypes == {"Electricity", "Gas"}
\* texts the ZIP code input can hold: nothing, blanks, a postal code
ZipInputs == {"", " "} \cup Zipcodes
\* a file of output/ as get_latest_csv can tell it from others: the fields of
\* its name ({prefix}_filtered_{zipcode}_{timestamp}.csv for a canonical
\* table, {prefix}_export_{timestamp}.csv for a raw copy) and what
\* os.path.getctime returns for it
OutputFiles ==
    [prefix : {"papowerswitch", "pagasswitch"}, kind : {"filtered"}, zip : Zipcodes,
     ctime : 1..MaxCtime]
    \cup [prefix : {"papowerswitch", "pagasswitch"}, kind : {"export"}, zip : {""},
          ctime : 1..MaxCtime]
Disks == {d \in SUBSET OutputFiles : Cardinality(d) <= MaxDisk}
NoFile == [prefix |-> "", kind |-> "", zip |-> "", ctime |-> 0]
\* how subprocess.run can end: the scraper exited 0, exited otherwise, or the
\* interpreter could not be started
ProcOutcomes == {"exit_0", "exit_nonzero", "not_started"}

\* (the input taken as typed)
Strip_none(z) == z

\* zipcode.strip() on the texts of the model
Strip(z) == IF z = " " THEN "" ELSE z
\* prefix = "papowerswitch" if energy_type == "Electricity" else "pagasswitch"
Prefix(energy) == IF energy = "Electricity" THEN "papowerswitch" ELSE "pagasswitch"

\* (check=False: a failed subprocess goes unnoticed)
run_scraper_unchecked(outcome) == "returned"

\* run_scraper: subprocess.run(cmd, check=True) raises CalledProcessError on a
\* non-zero exit status and OSError when the interpreter is not found
run_scraper(outcome) == IF outcome = "exit_0" THEN "returned" ELSE "raised"

\* what a scraper that exits 0 wrote for --zipcode zip: the raw copy and the
\* canonical table, created after every file that was there before
ScraperOutput(energy, zip) ==
    {[prefix |-> Prefix(energy), kind |-> "export", zip |-> "", ctime |-> MaxCtime + 1],
     [prefix |-> Prefix(energy), kind |-> "filtered", zip |-> zip, ctime |-> MaxCtime + 1]}

\* glob.glob(f"output/{prefix}_filtered_{zipcode}_*.csv")
Glob(d, prefix, zip) ==
    {f \in d : f.prefix = prefix /\ f.kind = "filtered" /\ f.zip = zip}

\* (the oldest match)
Latest_oldest(files) == {f \in files : \A g \in files : f.ctime <= g.ctime}

\* max(files, key=os.path.getctime): a file no other match exceeds
Latest(files) == {f \in files : \A g \in files : g.ctime <= f.ctime}

\* ----------------------------------------------------------------- helpers
Last(s) == s[Len(s)]
Range(s) == {s[i] : i \in 1..Len(s)}
BoolSeq3 == [1..3 -> BOOLEAN]

\* a step's verdict: what it returned (or that it raised), why, the workflow
\* states it reached on the way, and what its failure exit did about a
\* diagnostic snapshot: a bare `return False` captures none ("unsaved")
R(res, cause, reached) ==
    [res |-> res, cause |-> cause, reached |-> reached,
     diag |-> IF res = "ok" THEN "none" ELSE "unsaved"]

\* (the last strategy that finds an element wins)
FirstMatch_last(found) ==
    IF \E i \in 1..Len(found) : found[i]
    THEN CHOOSE i \in 1..Len(found) : found[i] /\ \A j \in (i + 1)..Len(found) : ~found[j]
    ELSE 0

\* a fallback chain: the index of the first strategy that finds an element,
\* 0 when none does
FirstMatch(found) ==
    IF \E i \in 1..Len(found) : found[i]
    THEN CHOOSE i \in 1..Len(found) : found[i] /\ \A j \in 1..(i - 1) : ~found[j]
    ELSE 0

\* an exception caught by a step's outer `except Exception`: the handler saves
\* a screenshot and the page source and returns False; when those raise (they
\* always do on a session that was quit), the exception leaves the step
Caught(alive, errSnap, cause, reached) ==
    IF alive /\ errSnap
    THEN [R("fail", cause, reached) EXCEPT !.diag = "saved"]
    ELSE [R("raise", cause, reached) EXCEPT !.diag = "refused"]

\* a not-found branch inside a step: snapshot, then return False; a snapshot
\* that raises lands in the step's outer handler
NotFound(alive, nfSnap, errSnap, cause, reached) ==
    IF alive /\ nfSnap THEN [R("fail", cause, reached) EXCEPT !.diag = "saved"]
    ELSE Caught(alive, errSnap, cause, reached)

\* one set-value or click on a target: what the native mechanism
\* (send_keys, element.click()) and the script mechanism (execute_script) did.
\* element.click() inside try, execute_script("arguments[0].click();") in its
\* except clause:
NativeThenScript(kind, tgt, nativeOk, scriptOk) ==
    [kind |-> kind, target |-> tgt,
     native |-> IF nativeOk THEN "ok" ELSE "raised",
     script |-> IF nativeOk THEN "untried" ELSE IF scriptOk THEN "ok" ELSE "raised"]
\* execute_script alone
ScriptOnly(kind, tgt, scriptOk) ==
    [kind |-> kind, target |-> tgt, native |-> "untried",
     script |-> IF scriptOk THEN "ok" ELSE "raised"]

\* ------------------------------------------------------- gas: step functions
GasNavEnv ==
    [get : BOOLEAN, byId : BOOLEAN, byName : BOOLEAN, byForm : BOOLEAN,
     snap : BOOLEAN, errSnap : BOOLEAN]

\* (the shop page step already submits the postal code)
navigate_to_shop_page_submits(alive, e) ==
    IF ~(alive /\ e.get) THEN Caught(alive, e.errSnap, "load_error", <<>>)
    ELSE IF ~(e.byId \/ e.byName \/ e.byForm)
         THEN Caught(alive, e.errSnap, "shop_timeout", <<>>)
    ELSE IF ~e.snap THEN Caught(alive, e.errSnap, "snapshot_error", <<"ShopPageLoaded">>)
    ELSE R("ok", "none", <<"ShopPageLoaded", "CodeSubmitted">>)

\* navigate_to_shop_page: load, tiered wait (id, name, any form), snapshot
navigate_to_shop_page(alive, e) ==
    IF ~(alive /\ e.get) THEN Caught(alive, e.errSnap, "load_error", <<>>)
    ELSE IF ~(e.byId \/ e.byName \/ e.byForm)
         THEN Caught(alive, e.errSnap, "shop_timeout", <<>>)
    ELSE IF ~e.snap THEN Caught(alive, e.errSnap, "snapshot_error", <<"ShopPageLoaded">>)
    ELSE R("ok", "none", <<"ShopPageLoaded">>)

ZipEnv ==
    [zip : BoolSeq3, script : BOOLEAN, snap : BOOLEAN, sub : BoolSeq3, click : BOOLEAN,
     exp : BOOLEAN, flt : BOOLEAN, nfSnap : BOOLEAN, errSnap : BOOLEAN]

\* the submit control was clicked: the browser requests the results page
ZipSubmitted(alive, e) ==
    /\ alive /\ FirstMatch(e.zip) # 0 /\ e.script
    /\ FirstMatch(e.sub) # 0 /\ e.click

\* (the results page recognised by its export control alone)
enter_zipcode_exportOnly(alive, e) ==
    IF ~alive THEN Caught(alive, e.errSnap, "driver_error", <<>>)
    ELSE IF FirstMatch(e.zip) = 0
         THEN NotFound(alive, e.nfSnap, e.errSnap, "zip_unresolved", <<>>)
    ELSE IF ~e.script THEN Caught(alive, e.errSnap, "script_error", <<>>)
    ELSE IF FirstMatch(e.sub) = 0
         THEN NotFound(alive, e.nfSnap, e.errSnap, "submit_unresolved", <<>>)
    ELSE IF ~e.click THEN R("fail", "submit_click", <<>>)
    ELSE IF ~e.exp
         THEN NotFound(alive, e.nfSnap, e.errSnap, "results_timeout", <<"CodeSubmitted">>)
    ELSE IF ~e.snap
         THEN Caught(alive, e.errSnap, "snapshot_error", <<"CodeSubmitted", "ResultsLoaded">>)
    ELSE R("ok", "none", <<"CodeSubmitted", "ResultsLoaded">>)

\* enter_zipcode: resolve the input (id, xpath, name), scroll, focus and set
\* the value by script and take the zipcode_entered screenshot (e.script: all
\* of lines 240-255, each raising into the outer handler), resolve the submit
\* control (id, same form, any submit), click it, wait for the export control
\* or, failing that, for a radio/checkbox input, snapshot the results page
enter_zipcode(alive, e) ==
    IF ~alive THEN Caught(alive, e.errSnap, "driver_error", <<>>)
    ELSE IF FirstMatch(e.zip) = 0
         THEN NotFound(alive, e.nfSnap, e.errSnap, "zip_unresolved", <<>>)
    ELSE IF ~e.script THEN Caught(alive, e.errSnap, "script_error", <<>>)
    ELSE IF FirstMatch(e.sub) = 0
         THEN NotFound(alive, e.nfSnap, e.errSnap, "submit_unresolved", <<>>)
    ELSE IF ~e.click THEN R("fail", "submit_click", <<>>)
    ELSE IF ~(e.exp \/ e.flt)
         THEN NotFound(alive, e.nfSnap, e.errSnap, "results_timeout", <<"CodeSubmitted">>)
    ELSE IF ~e.snap
         THEN Caught(alive, e.errSnap, "snapshot_error", <<"CodeSubmitted", "ResultsLoaded">>)
    ELSE R("ok", "none", <<"CodeSubmitted", "ResultsLoaded">>)

\* the interactions of enter_zipcode: the value is set and the submit control
\* is clicked with execute_script, each once its target is resolved
zipcode_interactions(alive, e) ==
    IF ~(alive /\ FirstMatch(e.zip) # 0) THEN <<>>
    ELSE <<ScriptOnly("set_value", "zipcode_input", e.script)>>
         \o (IF e.script /\ FirstMatch(e.sub) # 0
             THEN <<ScriptOnly("click", "submit_button", e.click)>>
             ELSE <<>>)

FilterEnv ==
    [outcomes : [1..Len(FilterSteps) -> FilterOutcomes], snap : BOOLEAN, errSnap : BOOLEAN]

\* the four _select_* calls: each wraps its whole body in try/except Exception
\* and returns None, so the next one runs whatever the previous one met
RunFilterSteps_abort(outcomes) ==
    LET firstBad == IF \E i \in 1..Len(FilterSteps) : outcomes[i] # "applied"
                    THEN CHOOSE i \in 1..Len(FilterSteps) :
                             /\ outcomes[i] # "applied"
                             /\ \A j \in 1..(i - 1) : outcomes[j] = "applied"
                    ELSE Len(FilterSteps)
    IN [i \in 1..firstBad |-> [step |-> FilterSteps[i], outcome |-> outcomes[i]]]

RunFilterSteps(outcomes) ==
    [i \in 1..Len(FilterSteps) |-> [step |-> FilterSteps[i], outcome |-> outcomes[i]]]

\* the wait at the head of apply_filters passed, so the sub-steps run
FiltersRun(alive, pg) == alive /\ pg.flt

\* apply_filters: wait for a radio/checkbox input, run the sub-steps, snapshot
apply_filters(alive, e, pg) ==
    IF ~alive THEN Caught(alive, e.errSnap, "driver_error", <<>>)
    ELSE IF ~pg.flt THEN Caught(alive, e.errSnap, "filter_wait_timeout", <<>>)
    ELSE IF ~e.snap THEN Caught(alive, e.errSnap, "snapshot_error", <<>>)
    ELSE R("ok", "none", <<"FiltersApplied">>)

GasExportEnv ==
    [exp : BoolSeq3, scroll : BOOLEAN, click : BOOLEAN, js : BOOLEAN, download : BOOLEAN,
     nfSnap : BOOLEAN, errSnap : BOOLEAN]

\* the export control was invoked, natively or by script
GasExportInvoked(alive, e) ==
    alive /\ FirstMatch(e.exp) # 0 /\ e.scroll /\ (e.click \/ e.js)

\* click_export_button (gas): resolve (text, class/id, href), click natively or
\* else by script, settle, then look for any .csv in the download directory
gas_click_export_button(alive, e, hadCsv) ==
    IF ~alive THEN Caught(alive, e.errSnap, "driver_error", <<>>)
    ELSE IF FirstMatch(e.exp) = 0 THEN Caught(alive, e.errSnap, "export_unresolved", <<>>)
    ELSE IF ~e.scroll THEN Caught(alive, e.errSnap, "script_error", <<>>)
    ELSE IF ~(e.click \/ e.js) THEN Caught(alive, e.errSnap, "export_click", <<>>)
    ELSE IF ~(hadCsv \/ e.download)
         THEN NotFound(alive, e.nfSnap, e.errSnap, "no_csv", <<>>)
    ELSE R("ok", "none", <<"Exported">>)

\* the interaction of click_export_button, once the control is resolved and
\* scrolled to
gas_export_interactions(alive, e) ==
    IF alive /\ FirstMatch(e.exp) # 0 /\ e.scroll
    THEN <<NativeThenScript("click", "gas_export_button", e.click, e.js)>>
    ELSE <<>>

\* -------------------------------------------------------- normalization run
\* the effects process_csv_file completed: all of `stages`, or those before
\* the one that raised (failAt), or none when no export file is found
StagesDone(stages, failAt, hasCsv) ==
    IF ~hasCsv THEN <<>>
    ELSE IF failAt = 0 THEN stages
    ELSE SubSeq(stages, 1, failAt - 1)

\* (False returned also after the table was written)
process_csv_file_neverTrue(stages, failAt, hasCsv) ==
    R("fail", IF hasCsv THEN "normalization_error" ELSE "no_csv", <<>>)

\* process_csv_file returns True after its last effect, False from every
\* `except` (neither scraper snapshots or re-raises there)
process_csv_file(stages, failAt, hasCsv) ==
    IF StagesDone(stages, failAt, hasCsv) = stages
    THEN R("ok", "none", <<"Completed">>)
    ELSE R("fail", IF hasCsv THEN "normalization_error" ELSE "no_csv", <<>>)

\* f"..._filtered_{zipcode}_{self.timestamp}.csv"
CanonicalName(zip, ts) == [zip |-> zip, ts |-> ts]

\* the files a normalization run leaves behind
RawAfter(done, ts) == IF "copy_raw" \in Range(done) THEN rawCopies \cup {ts} ELSE rawCopies
CanonicalAfter(done, zip, ts) ==
    IF "write" \in Range(done) THEN canonical \cup {CanonicalName(zip, ts)} ELSE canonical
\* to_csv(filtered_path) ran
WritesAfter(done) == IF "write" \in Range(done) THEN canonWrites + 1 ELSE canonWrites

\* sys.exit(0) on success, sys.exit(1) otherwise
ExitCode_zero(ok) == 0

ExitCode(ok) == IF ok THEN 0 ELSE 1

\* (a quit that leaves the session open)
Quit_leaveOpen(sessions, d) == sessions

\* driver.quit(): ends the session if it is still live, harmless otherwise
Quit(sessions, d) == sessions \ {d}

\* ----------------------------------------------------- power: step functions
PowerNavEnv ==
    [get : BOOLEAN, body : BOOLEAN, results : BOOLEAN, snap : BOOLEAN, errSnap : BOOLEAN]

\* navigate_to_website: load the results URL (zip and filters are in the query
\* string), wait for body, wait for an offer element, snapshot
navigate_to_website(alive, e) ==
    IF ~(alive /\ e.get /\ e.body) THEN Caught(alive, e.errSnap, "load_error", <<>>)
    ELSE IF ~e.results THEN Caught(alive, e.errSnap, "results_timeout", <<>>)
    ELSE IF ~e.snap THEN Caught(alive, e.errSnap, "snapshot_error", <<"ResultsLoaded">>)
    ELSE R("ok", "none", <<"ResultsLoaded", "FiltersApplied">>)

PowerExportEnv ==
    [exp : BoolSeq3, prep : BOOLEAN, click : BOOLEAN, js : BOOLEAN, download : BOOLEAN,
     nfSnap : BOOLEAN, errSnap : BOOLEAN]

\* the export control was invoked, natively or by script
PowerExportInvoked(alive, e) ==
    alive /\ FirstMatch(e.exp) # 0 /\ e.prep /\ (e.click \/ e.js)

\* click_export_button (power): three approaches (near Print Results, direct
\* xpath, partial text), each swallowing its own exception; scroll and
\* screenshot (e.prep); click natively or else by script; settle
power_click_export_button(alive, e) ==
    IF ~alive \/ FirstMatch(e.exp) = 0
    THEN NotFound(alive, e.nfSnap, e.errSnap, "export_unresolved", <<>>)
    ELSE IF ~e.prep THEN Caught(alive, e.errSnap, "script_error", <<>>)
    ELSE IF ~(e.click \/ e.js) THEN R("fail", "export_click", <<>>)
    ELSE R("ok", "none", <<"Exported">>)

power_export_interactions(alive, e) ==
    IF alive /\ FirstMatch(e.exp) # 0 /\ e.prep
    THEN <<NativeThenScript("click", "power_export_button", e.click, e.js)>>
    ELSE <<>>

\* how old the newest .csv can be when it is looked up: a file the export just
\* produced is fresh, a file left by an earlier attempt or run may be over a
\* minute old
StaleChoices(isNew) == IF isNew THEN {FALSE} ELSE BOOLEAN

\* the freshness check: find_latest_csv_file logs a warning for a file older
\* than 60 s; the gas scraper looks the newest file up without a check
StaleWarning(cat, stale) == cat = "power" /\ stale

\* find_latest_csv_file: None when the output directory holds no .csv
find_latest_csv_file(hasCsv) ==
    IF hasCsv THEN R("ok", "none", <<>>) ELSE R("fail", "no_csv", <<>>)

\* ------------------------------------------------------------ export locator
\* file types the scrapers leave in the directory: exports, screenshots, page
\* sources
Extensions == {"csv", "png", "html"}
\* who put a file there: the site's download, or the scraper (raw copies and
\* canonical tables are .csv files in the same directory; screenshots and page
\* sources are the scraper's)
Writers == {"site", "scraper"}
Files ==
    {f \in [ext : Extensions, mtime : 1..MaxMtime, by : Writers] :
        f.ext # "csv" => f.by = "scraper"}
SeqsUpTo(S, n) == UNION {[1..k -> S] : k \in 0..n}
\* os.listdir / glob order is the order of the sequence
Listings == SeqsUpTo(Files, MaxFiles)

\* (every file of the directory taken for an export)
CsvFiles_anyType(l) == [i \in 1..Len(l) |-> i]

\* glob("*.csv") and the endswith('.csv') comprehension: the .csv files of the
\* directory (as indices into the listing), in listing order
CsvFiles(l) == SelectSeq([i \in 1..Len(l) |-> i], LAMBDA i : l[i].ext = "csv")

\* max(csv_files, key=os.path.getmtime): scans left to right and keeps the
\* first file that no later one exceeds
RECURSIVE MaxByMtime(_, _)
MaxByMtime(l, idx) ==
    IF Len(idx) = 1 THEN idx[1]
    ELSE LET best == MaxByMtime(l, SubSeq(idx, 1, Len(idx) - 1))
         IN IF l[Last(idx)].mtime > l[best].mtime THEN Last(idx) ELSE best

\* csv_files.sort(key=getmtime, reverse=True): a stable sort, newest first,
\* files of equal time staying in listing order
RECURSIVE SortNewestFirst(_, _)
SortNewestFirst(l, idx) ==
    IF idx = <<>> THEN <<>>
    ELSE LET rest == SortNewestFirst(l, SubSeq(idx, 1, Len(idx) - 1))
             i == Last(idx)
             k == Cardinality({j \in 1..Len(rest) : l[rest[j]].mtime >= l[i].mtime})
         IN SubSeq(rest, 1, k) \o <<i>> \o SubSeq(rest, k + 1, Len(rest))

\* the export locator of each scraper; 0 stands for None / "No CSV files found"
LatestCsv(l) == IF CsvFiles(l) = <<>> THEN 0 ELSE MaxByMtime(l, CsvFiles(l))
NewestCsv(l) == IF CsvFiles(l) = <<>> THEN 0 ELSE SortNewestFirst(l, CsvFiles(l))[1]
Locate(cat, l) == IF cat = "power" THEN LatestCsv(l) ELSE NewestCsv(l)

\* ----------------------------------------------------------- fallback chains
\* the targets resolved through a chain of strategies, each chain in the order
\* the code tries it
Strategies ==
    [zipcode_input |-> <<"id", "xpath_in_wrapper", "name">>,
     submit_button |-> <<"id", "submit_in_same_form", "any_submit">>,
     fixed_price_checkbox |-> <<"id", "label_text", "scan_checkboxes">>,
     gas_export_button |-> <<"text", "class_or_id", "href">>,
     power_export_button |-> <<"near_print_results", "xpath", "partial_text">>]
Targets == DOMAIN Strategies
\* a document, as a chain sees it: the element each strategy finds, 0 = none
Documents(t) == [1..Len(Strategies[t]) -> 0..MaxElements]
NoPick == [elem |-> 0, tried |-> 0]

\* the nested try/except (gas) and the `if not export_button` cascade (power):
\* the element of the first strategy that finds one, and how many strategies
\* were evaluated
Resolve(fnd) ==
    LET k == FirstMatch([i \in 1..Len(fnd) |-> fnd[i] # 0])
    IN [elem |-> IF k = 0 THEN 0 ELSE fnd[k], tried |-> IF k = 0 THEN Len(fnd) ELSE k]

\* ------------------------------------------------------------ export tables
\* A table is a CSV file as pandas sees it: its columns in order, and its rows
\* in order.  A row carries the text of each cell and, as `id`, the index
\* label read_csv gave it (its position in the file read), which follows the
\* row through filtering and sorting.  The text of "More info" is a sequence
\* of words; every other cell is a string.
PriorityColumns == <<"Supplier", "Price", "Term Length">>
PowerRemoved == <<"PA Wind", "Renewable Energy", "Contact Phone Number">>
\* the columns whose name contains 'Unnamed'
UnnamedColumns == {"Unnamed: 9"}
GasColumns ==
    <<"Service Type", "Type", "Supplier", "More info", "Price", "Monthly Fee",
      "Cancellation Fee", "Discounts/Incentives Available", "Term Length", "Unnamed: 9">>
PowerColumns ==
    <<"Service Type", "Type", "Supplier", "More info", "Price", "PA Wind", "Monthly Fee",
      "Renewable Energy", "Contact Phone Number", "Term Length">>
ColumnsOf(cat) == IF cat = "gas" THEN GasColumns ELSE PowerColumns
AllColumns == Range(GasColumns) \cup Range(PowerColumns)
\* columns an export may come without
OptionalColumns == {"More info", "Price", "Service Type", "Supplier"}

\* cell texts read_csv takes for a missing value (some of its default markers)
NaTexts == {"", "N/A", "nan"}
\* the numbers the Price texts of the model denote; any other text is not one
Numerals == ("3" :> 3) @@ ("5" :> 5)

DefaultCell(c) ==
    CASE c \in {"Service Type"} -> "Residential"
      [] c = "Type" -> "Fixed"
      [] c \in {"Monthly Fee", "Discounts/Incentives Available"} -> "No"
      [] c = "Term Length" -> "12"
      [] c = "More info" -> <<>>
      [] OTHER -> ""
\* an offer of supplier `sup`: the default cells pass every row filter; `col`
\* is the one cell set otherwise
Offer(sup, price, info, col, val) ==
    [c \in AllColumns |->
        IF c = "Supplier" THEN sup
        ELSE IF c = "Price" THEN price
        ELSE IF c = "More info" THEN info
        ELSE IF c = col THEN val
        ELSE DefaultCell(c)]
Offers(cat) ==
    {Offer("A", "5", <<"For", "New", "Customers">>, "Type", "Fixed"),
     Offer("B", "5", <<>>, "Cancellation Fee", "N/A"),
     Offer("C", "call", <<"Only", "FOR", "NEW", "CUSTOMERS">>, "Type", "Fixed"),
     Offer("E", "3", <<"for", "new", "and", "existing", "customers">>,
           "Service Type", "Commercial"),
     Offer("F", "3", <<>>, "Type", "Variable"),
     Offer("G", "5", <<>>, "Monthly Fee", "Yes")}
    \cup (IF cat = "gas"
          THEN {Offer("H", "3", <<>>, "Cancellation Fee", "50"),
                Offer("I", "3", <<>>, "Discounts/Incentives Available", "Yes")}
          ELSE {})

NoTable == [cols |-> <<>>, rows |-> <<>>]
HasCol(t, c) == c \in Range(t.cols)
Without(cols, gone) == SelectSeq(cols, LAMBDA c : c \notin gone)
\* pd.read_csv of a file with these columns and these rows
MakeTable(cols, offers) ==
    [cols |-> cols,
     rows |-> [i \in 1..Len(offers) |->
                  [id |-> i, cells |-> [c \in Range(cols) |-> offers[i][c]]]]]
RawTables(cat) ==
    {MakeTable(Without(ColumnsOf(cat), gone), offers) :
        gone \in SUBSET OptionalColumns, offers \in SeqsUpTo(Offers(cat), MaxRows)}

\* --- pandas, as process_csv_file uses it
\* the cell is NaN once read
IsNA(c, v) == IF c = "More info" THEN v = <<>> ELSE v \in NaTexts
\* (no row filtered out)
FilterEq_keepAll(t, c, v) == t

\* if col in df.columns: df = df[df[col] == v]
FilterEq(t, c, v) ==
    IF HasCol(t, c)
    THEN [t EXCEPT !.rows = SelectSeq(t.rows, LAMBDA r : ~IsNA(c, r.cells[c])
                                                            /\ r.cells[c] = v)]
    ELSE t
\* if col in df.columns: df = df[df[col].isna() | (df[col] == '') | (df[col].astype(str) == 'nan')]
FilterBlank(t, c) ==
    IF HasCol(t, c)
    THEN [t EXCEPT !.rows = SelectSeq(t.rows, LAMBDA r : \/ IsNA(c, r.cells[c])
                                                            \/ r.cells[c] = ""
                                                            \/ r.cells[c] = "nan")]
    ELSE t
\* df.drop(columns=gone)
DropCols(t, gone) ==
    [cols |-> Without(t.cols, gone),
     rows |-> [i \in 1..Len(t.rows) |->
                  [id |-> t.rows[i].id,
                   cells |-> [c \in Range(t.cols) \ gone |-> t.rows[i].cells[c]]]]]
\* df[col] = values: in place when the column exists, appended otherwise
SetCol(t, c, values) ==
    [cols |-> IF HasCol(t, c) THEN t.cols ELSE Append(t.cols, c),
     rows |-> [i \in 1..Len(t.rows) |->
                  [id |-> t.rows[i].id,
                   cells |-> [d \in Range(t.cols) \cup {c} |->
                                 IF d = c THEN values[i] ELSE t.rows[i].cells[d]]]]]
\* pd.to_numeric(errors='coerce'): the number, or NaN
ToNumeric(v) ==
    IF v \in DOMAIN Numerals THEN [nan |-> FALSE, n |-> Numerals[v]] ELSE [nan |-> TRUE, n |-> 0]
\* the text to_csv writes for a number or NaN
NumberText(x) == IF x.nan THEN "" ELSE CHOOSE v \in DOMAIN Numerals : Numerals[v] = x.n

\* filtered_df['Price'] = pd.to_numeric(filtered_df['Price'], errors='coerce')
\* (the cell keeps the text to_csv will write for the number)
CoercePrice(t) ==
    SetCol(t, "Price",
           [i \in 1..Len(t.rows) |-> NumberText(ToNumeric(t.rows[i].cells["Price"]))])
Perms(n) == {p \in [1..n -> 1..n] : \A i, j \in 1..n : p[i] = p[j] => i = j}

\* (rows left in any order)
SortOrders_unsorted(t) == Perms(Len(t.rows))

\* sort_values(by='Price'), ascending, na_position='last', kind='quicksort':
\* rows with a number in ascending order, then the NaN rows in the order they
\* had.  quicksort is not stable: rows of equal Price come out in an order the
\* numpy build decides, so every order of them is a possible outcome.
SortOrders(t) ==
    {p \in Perms(Len(t.rows)) :
        \A i, j \in 1..Len(t.rows) :
            i < j =>
                LET a == ToNumeric(t.rows[p[i]].cells["Price"])
                    b == ToNumeric(t.rows[p[j]].cells["Price"])
                IN /\ ~(a.nan /\ ~b.nan)
                   /\ (~a.nan /\ ~b.nan) => a.n <= b.n
                   /\ (a.nan /\ b.nan) => p[i] < p[j]}
sort_values(t) ==
    {[t EXCEPT !.rows = [i \in 1..Len(t.rows) |-> t.rows[p[i]]]] : p \in SortOrders(t)}
\* if 'Price' in df.columns: coerce and sort; the tables this can leave
SortByPrice(t) == IF HasCol(t, "Price") THEN sort_values(CoercePrice(t)) ELSE {t}

\* str.lower() on the words the model's texts are made of
LowerCase(w) ==
    CASE w \in {"For", "FOR"} -> "for"
      [] w \in {"New", "NEW"} -> "new"
      [] w \in {"Customers", "CUSTOMERS"} -> "customers"
      [] w = "Only" -> "only"
      [] OTHER -> w
Phrase == <<"for", "new", "customers">>
\* more_info_col.str.lower().str.contains('for new customers', na=False)
ContainsPhrase(words) ==
    \E i \in 1..(Len(words) - Len(Phrase) + 1) :
        [k \in 1..Len(Phrase) |-> LowerCase(words[i + k - 1])] = Phrase
NewCustomersOnly(words) == IF ContainsPhrase(words) THEN "Yes" ELSE "No"

\* to_csv(index=False) and what read_csv makes of it: a missing value is
\* written as an empty cell, the index labels are not written
Written(c, v) == IF c = "More info" THEN v ELSE IF v \in NaTexts THEN "" ELSE v
ToCsv(t) ==
    [cols |-> t.cols,
     rows |-> [i \in 1..Len(t.rows) |->
                  [id |-> t.rows[i].id,
                   cells |-> [c \in Range(t.cols) |-> Written(c, t.rows[i].cells[c])]]]]
\* reading a written table back: read_csv numbers the rows anew
Reread(t) ==
    [cols |-> t.cols,
     rows |-> [i \in 1..Len(t.rows) |-> [id |-> i, cells |-> t.rows[i].cells]]]

\* --- gas process_csv_file: the five row filters, in code order
GasFilters(t) ==
    LET f1 == FilterEq(t, "Service Type", "Residential")
        f2 == FilterEq(f1, "Type", "Fixed")
        f3 == FilterEq(f2, "Monthly Fee", "No")
        f4 == FilterBlank(f3, "Cancellation Fee")
    IN FilterEq(f4, "Discounts/Incentives Available", "No")
\* (the Cancellation Fee column left in)
GasRemoved_keepFee(t) == Range(t.cols) \cap ({"More info"} \cup UnnamedColumns)

\* columns_to_remove
GasRemoved(t) == Range(t.cols) \cap ({"More info", "Cancellation Fee"} \cup UnnamedColumns)
\* Supplier, Price, Term Length first, only when all three are there
GasReorder(t) ==
    IF \A c \in Range(PriorityColumns) : HasCol(t, c)
    THEN [t EXCEPT !.cols = PriorityColumns \o Without(t.cols, Range(PriorityColumns))]
    ELSE t
\* "New Customers only" from the stored More info column, then More info
\* itself put back, which appends it; both assignments align on the index
\* labels, that is row by row
GasDerive(t, info) ==
    SetCol(SetCol(t, "New Customers only",
                  [i \in 1..Len(t.rows) |-> NewCustomersOnly(info[i])]),
           "More info", info)
\* everything after the sort
GasAfterSort(t) ==
    LET info == [i \in 1..Len(t.rows) |-> t.rows[i].cells["More info"]]
        ordered == GasReorder(DropCols(t, GasRemoved(t)))
    IN ToCsv(IF HasCol(t, "More info") THEN GasDerive(ordered, info) ELSE ordered)

\* --- power process_csv_file: it drops its three columns first, then filters
PowerBeforeSort(t) ==
    LET d == DropCols(t, Range(t.cols) \cap Range(PowerRemoved))
        f1 == FilterEq(d, "Service Type", "Residential")
        f2 == FilterEq(f1, "Type", "Fixed")
    IN FilterEq(f2, "Monthly Fee", "No")
\* the priority columns that exist, then the remaining ones
PowerReorder(t) ==
    [t EXCEPT !.cols = SelectSeq(PriorityColumns, LAMBDA c : HasCol(t, c))
                         \o Without(t.cols, Range(PriorityColumns))]
PowerAfterSort(t) == ToCsv(PowerReorder(t))

\* the canonical tables process_csv_file can write for table t
Normalizations(cat, t) ==
    IF cat = "gas"
    THEN {GasAfterSort(s) : s \in SortByPrice(GasFilters(t))}
    ELSE {PowerAfterSort(s) : s \in SortByPrice(PowerBeforeSort(t))}

\* the dtype read_csv infers for "More info": float64 when no cell of the
\* file holds any text (every value NaN), object otherwise, and object too for
\* a file without data rows
InfoIsFloat(t) ==
    /\ HasCol(t, "More info") /\ t.rows # <<>>
    /\ \A i \in 1..Len(t.rows) : IsNA("More info", t.rows[i].cells["More info"])
\* more_info_col.fillna('').str: fillna turns a float64 column that has NaN
\* values into an object column of '', and leaves one without values (no row
\* survived) float64, where .str raises AttributeError; the power scraper
\* never reads the column
Raises(cat, t) ==
    cat = "gas" /\ InfoIsFloat(t) /\ GasFilters(t).rows = <<>>

\* the columns whose step was skipped with a logged warning: the gas steps
\* with an `else: logging.warning(... skipping ...)` branch; the power scraper
\* guards its steps with a bare `if col in df.columns:`
SkipsLogged(cat, t) ==
    IF cat = "gas"
    THEN {c \in {"Service Type", "Type", "Monthly Fee", "Cancellation Fee",
                 "Discounts/Incentives Available", "Price"} : ~HasCol(t, c)}
    ELSE {}

\* ------------------------------------------------------------ retry loops
\* where run() goes after a step: on to the next step, or `continue` (through
\* finally) when the step returned False, or the except clause when it raised
StepExit_ignoreFalse(res, next) ==
    IF res = "raise" THEN "except" ELSE next

StepExit(res, next) ==
    IF res = "ok" THEN next ELSE IF res = "fail" THEN "finally" ELSE "except"

\* the state of a fresh attempt
NewAttempt ==
    /\ page' = NoPage
    /\ trail' = <<"Start">>
    /\ failCause' = "none"
    /\ filterLog' = <<>>
    /\ normLog' = <<>>
    /\ exportClicked' = FALSE
    /\ newFile' = FALSE
    /\ staleUsed' = FALSE
    /\ staleWarned' = FALSE
    /\ diag' = "none"
    /\ snapshots' = {}
    /\ interactions' = <<>>

\* an attempt that ended before its workflow began: no browser could be set up
SetupFailed ==
    /\ page' = NoPage
    /\ trail' = <<"Start", "Failed">>
    /\ failCause' = "setup_failed"
    /\ filterLog' = <<>>
    /\ normLog' = <<>>
    /\ exportClicked' = FALSE
    /\ newFile' = FALSE
    /\ staleUsed' = FALSE
    /\ staleWarned' = FALSE
    /\ diag' = "none"
    /\ snapshots' = {}
    /\ interactions' = <<>>

\* the workflow states on whose entry the code saves a screenshot: shop_page,
\* results_page_<zip>, after_filters (gas); results_page, taken of the results
\* page the URL loads with its filters applied (power)
SnapshotAt(cat) ==
    IF cat = "gas" THEN {"ShopPageLoaded", "ResultsLoaded", "FiltersApplied"}
    ELSE {"ResultsLoaded", "FiltersApplied"}
\* the states a step persisted a snapshot of: those it reached, unless the
\* snapshot is what raised
Persisted(cat, r) ==
    IF r.cause = "snapshot_error" THEN {} ELSE Range(r.reached) \cap SnapshotAt(cat)

\* what every step leaves in the attempt's record
Record(r) ==
    /\ trail' = trail \o r.reached \o (IF r.res = "ok" THEN <<>> ELSE <<"Failed">>)
    /\ failCause' = r.cause
    /\ diag' = r.diag
    /\ snapshots' = snapshots \cup Persisted(category, r)
    /\ everResults' = (everResults \/ "ResultsLoaded" \in Range(r.reached))

\* no request is being served
AppOff ==
    /\ appPc = "off" /\ zipInput = "" /\ energy_type = "Gas" /\ disk = {}
    /\ procOutcome = "not_run" /\ lookups = 0 /\ latest_file = NoFile /\ view = "none"

Init ==
    /\ category \in Categories
    /\ max_retries \in (-1)..MaxRetriesBound
    /\ zipcode \in Zipcodes
    /\ pc = IF category = "gas" THEN "m_loop" ELSE "p_loop"
    /\ fin = "none"
    /\ main_retry = 0
    /\ main_success = FALSE
    /\ retry_count = 0
    /\ attempt = 0
    /\ success = FALSE
    /\ driver = NoDriver
    /\ live = {}
    /\ used = {}
    /\ created = 0
    /\ timestamp = IF category = "gas" THEN 0 ELSE 1
    /\ page = NoPage
    /\ trail = <<>>
    /\ failCause = "none"
    /\ filterLog = <<>>
    /\ normLog = <<>>
    /\ exportClicked = FALSE
    /\ newFile = FALSE
    /\ staleUsed = FALSE
    /\ staleWarned = FALSE
    /\ diag = "none"
    /\ snapshots = {}
    /\ interactions = <<>>
    /\ dirCsv \in BOOLEAN
    /\ rawCopies = {}
    /\ canonical = {}
    /\ canonWrites = 0
    /\ iterations = 0
    /\ workflowStarts = 0
    /\ gapSleeps = 0
    /\ gapAtStart = 0
    /\ everResults = FALSE
    /\ everCompleted = FALSE
    /\ exitStatus = -1
    /\ dpc = "off"
    /\ listing = <<>>
    /\ located = 0
    /\ target = "none"
    /\ doc = <<>>
    /\ picked = NoPick
    /\ raw = NoTable
    /\ out = NoTable
    /\ again = NoTable
    /\ skips = {}
    /\ AppOff

\* ------------------------------------------------------------- gas: main()
\* one iteration of main's while loop up to the call of run(): sleep when
\* retrying, construct a scraper (its constructor starts the browser)
GMain ==
    /\ category = "gas" /\ pc = "m_loop"
    /\ main_retry < max_retries /\ ~main_success
    /\ \E ctorOk \in BOOLEAN :
         LET slept == IF main_retry > 0 THEN 1 ELSE 0 IN
         /\ timestamp' = timestamp + 1
         /\ IF ctorOk
            THEN /\ created' = created + 1
                 /\ driver' = created + 1
                 /\ live' = live \cup {created + 1}
                 /\ retry_count' = 0
                 /\ success' = FALSE
                 /\ pc' = "r_loop"
                 /\ gapSleeps' = gapSleeps + slept
                 /\ UNCHANGED <<main_retry, iterations, gapAtStart, attemptVars>>
            ELSE /\ driver' = NoDriver
                 /\ main_retry' = main_retry + 1
                 /\ pc' = "m_finally"
                 /\ iterations' = iterations + 1
                 /\ gapAtStart' = gapSleeps + slept
                 /\ gapSleeps' = 0
                 /\ SetupFailed
                 /\ UNCHANGED <<created, live, retry_count, success>>
    /\ UNCHANGED <<cfgVars, dataVars, fin, main_success, attempt, used, fileVars,
                   workflowStarts, everResults, everCompleted, exitStatus>>

\* run() has returned to main
GRunReturn ==
    /\ category = "gas" /\ pc = "r_loop"
    /\ ~(retry_count < max_retries /\ ~success)
    /\ main_success' = success
    /\ main_retry' = IF success THEN main_retry ELSE main_retry + 1
    /\ pc' = "m_finally"
    /\ UNCHANGED <<cfgVars, dataVars, fin, retry_count, attempt, success, browserVars,
                   attemptVars, fileVars, countVars, everResults, everCompleted,
                   exitStatus>>

\* main's finally: quit the scraper's browser when a scraper was constructed
GMainFinally ==
    /\ category = "gas" /\ pc = "m_finally"
    /\ live' = IF driver # NoDriver THEN Quit(live, driver) ELSE live
    /\ pc' = "m_loop"
    /\ UNCHANGED <<cfgVars, dataVars, fin, gasLoopVars, attempt, success, driver, used,
                   created, timestamp, attemptVars, fileVars, countVars, everResults,
                   everCompleted, exitStatus>>

GMainExit ==
    /\ category = "gas" /\ pc = "m_loop"
    /\ ~(main_retry < max_retries /\ ~main_success)
    /\ exitStatus' = ExitCode(main_success)
    /\ pc' = "done"
    /\ UNCHANGED <<cfgVars, dataVars, fin, gasLoopVars, attempt, success, browserVars,
                   attemptVars, fileVars, countVars, everResults, everCompleted>>

\* -------------------------------------------------------------- gas: run()
\* head of run's while loop: sleep when retrying, then the attempt begins
GRunLoop ==
    /\ category = "gas" /\ pc = "r_loop"
    /\ retry_count < max_retries /\ ~success
    /\ iterations' = iterations + 1
    /\ gapAtStart' = gapSleeps + (IF retry_count > 0 THEN 1 ELSE 0)
    /\ gapSleeps' = 0
    /\ NewAttempt
    /\ pc' = "navigate"
    /\ UNCHANGED <<cfgVars, dataVars, fin, gasLoopVars, attempt, success, browserVars,
                   fileVars, workflowStarts, everResults, everCompleted, exitStatus>>

\* a step of the gas workflow came back with verdict r
GasStep(r, next) ==
    /\ pc' = StepExit(r.res, next)
    /\ retry_count' = IF r.res = "fail" THEN retry_count + 1 ELSE retry_count
    /\ Record(r)

GNavigate ==
    /\ category = "gas" /\ pc = "navigate"
    /\ \E e \in GasNavEnv : GasStep(navigate_to_shop_page(driver \in live, e), "zipcode")
    /\ used' = used \cup {driver}
    /\ workflowStarts' = workflowStarts + 1
    /\ UNCHANGED <<cfgVars, dataVars, fin, main_retry, main_success, attempt, success,
                   driver, live, created, timestamp, page, filterLog, normLog,
                   exportClicked, exportVars, interactions, fileVars, iterations,
                   gapSleeps, gapAtStart, everCompleted, exitStatus>>

GEnterZipcode ==
    /\ category = "gas" /\ pc = "zipcode"
    /\ \E e \in ZipEnv :
         /\ GasStep(enter_zipcode(driver \in live, e), "filters")
         /\ page' = IF ZipSubmitted(driver \in live, e)
                    THEN [exp |-> e.exp, flt |-> e.flt, loaded |-> TRUE]
                    ELSE page
         /\ interactions' = interactions \o zipcode_interactions(driver \in live, e)
    /\ UNCHANGED <<cfgVars, dataVars, fin, main_retry, main_success, attempt, success,
                   browserVars, filterLog, normLog, exportClicked, exportVars, fileVars,
                   countVars, everCompleted, exitStatus>>

GApplyFilters ==
    /\ category = "gas" /\ pc = "filters"
    /\ \E e \in FilterEnv :
         /\ GasStep(apply_filters(driver \in live, e, page), "export")
         /\ filterLog' = IF FiltersRun(driver \in live, page)
                         THEN RunFilterSteps(e.outcomes)
                         ELSE <<>>
    /\ UNCHANGED <<cfgVars, dataVars, fin, main_retry, main_success, attempt, success,
                   browserVars, page, normLog, exportClicked, exportVars, interactions,
                   fileVars, countVars, everCompleted, exitStatus>>

GClickExport ==
    /\ category = "gas" /\ pc = "export"
    /\ \E e \in GasExportEnv :
         /\ GasStep(gas_click_export_button(driver \in live, e, dirCsv), "process")
         /\ interactions' = interactions \o gas_export_interactions(driver \in live, e)
         /\ exportClicked' = GasExportInvoked(driver \in live, e)
         /\ newFile' = (GasExportInvoked(driver \in live, e) /\ e.download)
         /\ dirCsv' = (dirCsv \/ newFile')
         /\ \E stale \in StaleChoices(newFile') :
              /\ staleUsed' = (GasExportInvoked(driver \in live, e) /\ dirCsv' /\ stale)
              /\ staleWarned' = StaleWarning(category, staleUsed')
    /\ UNCHANGED <<cfgVars, dataVars, fin, main_retry, main_success, attempt, success,
                   browserVars, page, filterLog, normLog, rawCopies, canonical,
                   canonWrites, countVars, everCompleted, exitStatus>>

GProcess ==
    /\ category = "gas" /\ pc = "process"
    /\ \E failAt \in {0} \cup 2..Len(GasStages) :
         LET done == StagesDone(GasStages, failAt, dirCsv)
             r == process_csv_file(GasStages, failAt, dirCsv)
         IN /\ GasStep(r, "finally")
            /\ normLog' = done
            /\ rawCopies' = RawAfter(done, timestamp)
            /\ canonical' = CanonicalAfter(done, zipcode, timestamp)
            /\ canonWrites' = WritesAfter(done)
            /\ success' = (r.res = "ok")
            /\ everCompleted' = (everCompleted \/ r.res = "ok")
    /\ UNCHANGED <<cfgVars, dataVars, fin, main_retry, main_success, attempt,
                   browserVars, page, filterLog, exportClicked, exportVars,
                   interactions, dirCsv, countVars, exitStatus>>

\* run's except clause
GExcept ==
    /\ category = "gas" /\ pc = "except"
    /\ retry_count' = retry_count + 1
    /\ pc' = "finally"
    /\ UNCHANGED <<cfgVars, dataVars, fin, main_retry, main_success, attempt, success,
                   browserVars, attemptVars, fileVars, countVars, everResults,
                   everCompleted, exitStatus>>

\* (the browser quit on the failure paths only)
GFinally_onFailure ==
    /\ category = "gas" /\ pc = "finally"
    /\ live' = IF success THEN live ELSE Quit(live, driver)
    /\ pc' = "r_loop"
    /\ UNCHANGED <<cfgVars, dataVars, fin, gasLoopVars, attempt, success, driver, used,
                   created, timestamp, attemptVars, fileVars, countVars, everResults,
                   everCompleted, exitStatus>>

\* run's finally clause: self.driver.quit(), on every way out of the try
GFinally ==
    /\ category = "gas" /\ pc = "finally"
    /\ live' = Quit(live, driver)
    /\ pc' = "r_loop"
    /\ UNCHANGED <<cfgVars, dataVars, fin, gasLoopVars, attempt, success, driver, used,
                   created, timestamp, attemptVars, fileVars, countVars, everResults,
                   everCompleted, exitStatus>>

\* ------------------------------------------------------------ power: run()
\* (a loop that runs max_retries + 1 times)
PRunLoop_inclusive ==
    /\ category = "power" /\ pc = "p_loop"
    /\ attempt <= max_retries
    /\ attempt' = attempt + 1
    /\ iterations' = iterations + 1
    /\ gapAtStart' = gapSleeps
    /\ gapSleeps' = 0
    /\ \E setupOk \in BOOLEAN :
         IF setupOk
         THEN /\ created' = created + 1
              /\ driver' = created + 1
              /\ live' = live \cup {created + 1}
              /\ pc' = "navigate"
              /\ NewAttempt
              /\ UNCHANGED fin
         ELSE /\ driver' = NoDriver
              /\ pc' = "finally"
              /\ fin' = "continue"
              /\ SetupFailed
              /\ UNCHANGED <<created, live>>
    /\ UNCHANGED <<cfgVars, dataVars, gasLoopVars, success, used, timestamp, fileVars,
                   workflowStarts, everResults, everCompleted, exitStatus>>

\* head of one iteration of run's for loop: setup_driver() starts a browser,
\* or returns None and the iteration is left by `continue`
PRunLoop ==
    /\ category = "power" /\ pc = "p_loop"
    /\ attempt < max_retries
    /\ attempt' = attempt + 1
    /\ iterations' = iterations + 1
    /\ gapAtStart' = gapSleeps
    /\ gapSleeps' = 0
    /\ \E setupOk \in BOOLEAN :
         IF setupOk
         THEN /\ created' = created + 1
              /\ driver' = created + 1
              /\ live' = live \cup {created + 1}
              /\ pc' = "navigate"
              /\ NewAttempt
              /\ UNCHANGED fin
         ELSE /\ driver' = NoDriver
              /\ pc' = "finally"
              /\ fin' = "continue"
              /\ SetupFailed
              /\ UNCHANGED <<created, live>>
    /\ UNCHANGED <<cfgVars, dataVars, gasLoopVars, success, used, timestamp, fileVars,
                   workflowStarts, everResults, everCompleted, exitStatus>>

\* a step of the power workflow came back with verdict r
PowerStep(r, next) ==
    /\ pc' = StepExit(r.res, next)
    /\ fin' = IF r.res = "fail" THEN "continue" ELSE fin
    /\ Record(r)

PNavigate ==
    /\ category = "power" /\ pc = "navigate"
    /\ \E e \in PowerNavEnv : PowerStep(navigate_to_website(driver \in live, e), "export")
    /\ used' = used \cup {driver}
    /\ workflowStarts' = workflowStarts + 1
    /\ UNCHANGED <<cfgVars, dataVars, gasLoopVars, attempt, success, driver, live,
                   created, timestamp, page, filterLog, normLog, exportClicked,
                   exportVars, interactions, fileVars, iterations, gapSleeps,
                   gapAtStart, everCompleted, exitStatus>>

PClickExport ==
    /\ category = "power" /\ pc = "export"
    /\ \E e \in PowerExportEnv :
         /\ PowerStep(power_click_export_button(driver \in live, e), "find")
         /\ interactions' = interactions \o power_export_interactions(driver \in live, e)
         /\ exportClicked' = PowerExportInvoked(driver \in live, e)
         /\ newFile' = (PowerExportInvoked(driver \in live, e) /\ e.download)
         /\ dirCsv' = (dirCsv \/ newFile')
    /\ UNCHANGED <<cfgVars, dataVars, gasLoopVars, attempt, success, browserVars, page,
                   filterLog, normLog, staleUsed, staleWarned, rawCopies, canonical,
                   canonWrites, countVars, everCompleted, exitStatus>>

PFindLatest ==
    /\ category = "power" /\ pc = "find"
    /\ PowerStep(find_latest_csv_file(dirCsv), "process")
    /\ \E stale \in StaleChoices(newFile) :
         /\ staleUsed' = (dirCsv /\ stale)
         /\ staleWarned' = StaleWarning(category, staleUsed')
    /\ UNCHANGED <<cfgVars, dataVars, gasLoopVars, attempt, success, browserVars, page,
                   filterLog, normLog, exportClicked, newFile, interactions, fileVars,
                   countVars, everCompleted, exitStatus>>

PProcess ==
    /\ category = "power" /\ pc = "process"
    /\ \E failAt \in {0} \cup 2..Len(PowerStages) :
         LET done == StagesDone(PowerStages, failAt, dirCsv)
             r == process_csv_file(PowerStages, failAt, dirCsv)
         IN /\ pc' = StepExit(r.res, "finally")
            /\ fin' = IF r.res = "ok" THEN "break" ELSE "continue"
            /\ Record(r)
            /\ normLog' = done
            /\ rawCopies' = RawAfter(done, timestamp)
            /\ canonical' = CanonicalAfter(done, zipcode, timestamp)
            /\ canonWrites' = WritesAfter(done)
            /\ success' = (r.res = "ok")
            /\ everCompleted' = (everCompleted \/ r.res = "ok")
    /\ UNCHANGED <<cfgVars, dataVars, gasLoopVars, attempt, browserVars, page,
                   filterLog, exportClicked, exportVars, interactions, dirCsv,
                   countVars, exitStatus>>

\* run's except clause: screenshot and page source of the failed attempt; when
\* they raise, nothing catches it and the exception leaves run() and main()
PExcept ==
    /\ category = "power" /\ pc = "except"
    /\ \E snap \in BOOLEAN :
         fin' = IF driver \in live /\ snap THEN "fall" ELSE "escape"
    /\ pc' = "finally"
    /\ UNCHANGED <<cfgVars, dataVars, gasLoopVars, attempt, success, browserVars,
                   attemptVars, fileVars, countVars, everResults, everCompleted,
                   exitStatus>>

\* (`break` treated like falling out of the try: the loop goes on)
PFinally_breakFalls ==
    /\ category = "power" /\ pc = "finally"
    /\ live' = IF driver # NoDriver THEN Quit(live, driver) ELSE live
    /\ driver' = NoDriver
    /\ pc' = CASE fin = "continue" -> "p_loop"
               [] fin = "break" -> "after_try"
               [] fin = "fall" -> "after_try"
               [] fin = "escape" -> "p_crash"
    /\ fin' = "none"
    /\ UNCHANGED <<cfgVars, dataVars, gasLoopVars, attempt, success, used, created,
                   timestamp, attemptVars, fileVars, countVars, everResults,
                   everCompleted, exitStatus>>

\* run's finally clause: quit the browser if there is one, then leave the try
\* the way it was being left
PFinally ==
    /\ category = "power" /\ pc = "finally"
    /\ live' = IF driver # NoDriver THEN Quit(live, driver) ELSE live
    /\ driver' = NoDriver
    /\ pc' = CASE fin = "continue" -> "p_loop"
               [] fin = "break" -> "p_return"
               [] fin = "fall" -> "after_try"
               [] fin = "escape" -> "p_crash"
    /\ fin' = "none"
    /\ UNCHANGED <<cfgVars, dataVars, gasLoopVars, attempt, success, used, created,
                   timestamp, attemptVars, fileVars, countVars, everResults,
                   everCompleted, exitStatus>>

\* the statement after the try: sleep before retrying
PAfterTry ==
    /\ category = "power" /\ pc = "after_try"
    /\ gapSleeps' = IF attempt < max_retries /\ ~success THEN gapSleeps + 1 ELSE gapSleeps
    /\ pc' = "p_loop"
    /\ UNCHANGED <<cfgVars, dataVars, fin, gasLoopVars, attempt, success, browserVars,
                   attemptVars, fileVars, iterations, workflowStarts, gapAtStart,
                   everResults, everCompleted, exitStatus>>

\* run() returned (loop exhausted, or break): main exits on its result
PMainExit ==
    /\ category = "power"
    /\ (pc = "p_loop" /\ ~(attempt < max_retries)) \/ pc = "p_return"
    /\ exitStatus' = ExitCode(success)
    /\ pc' = "done"
    /\ UNCHANGED <<cfgVars, dataVars, fin, gasLoopVars, attempt, success, browserVars,
                   attemptVars, fileVars, countVars, everResults, everCompleted>>

\* an exception left main(): the interpreter prints it and exits with status 1
PCrash ==
    /\ category = "power" /\ pc = "p_crash"
    /\ exitStatus' = 1
    /\ pc' = "done"
    /\ UNCHANGED <<cfgVars, dataVars, fin, gasLoopVars, attempt, success, browserVars,
                   attemptVars, fileVars, countVars, everResults, everCompleted>>

Next ==
    \/ GMain \/ GRunReturn \/ GMainFinally \/ GMainExit
    \/ GRunLoop \/ GNavigate \/ GEnterZipcode \/ GApplyFilters \/ GClickExport
    \/ GProcess \/ GExcept \/ GFinally
    \/ PRunLoop \/ PNavigate \/ PClickExport \/ PFindLatest \/ PProcess
    \/ PExcept \/ PFinally \/ PAfterTry \/ PMainExit \/ PCrash

Spec == Init /\ [][Next]_vars

\* the interpreter runs the next statement of main()/run() whenever there is
\* one: the program is sequential, every wait.until and time.sleep returns
\* after its timeout, and driver calls return or raise
FairSpec == Spec /\ WF_vars(Next)

\* ------------------------------------------------- the data functions alone
\* everything main() and run() own
progVars ==
    <<cfgVars, pc, fin, gasLoopVars, attempt, success, browserVars, attemptVars, fileVars,
      countVars, everResults, everCompleted, exitStatus>>

\* one input for one of the functions: a directory for the export locator, a
\* document for a fallback chain, or a raw export for process_csv_file
DataInit ==
    /\ category \in Categories
    /\ max_retries = MaxRetriesBound
    /\ zipcode = DefaultZipcode
    /\ pc = "data"
    /\ fin = "none"
    /\ main_retry = 0 /\ main_success = FALSE /\ retry_count = 0
    /\ attempt = 0 /\ success = FALSE
    /\ driver = NoDriver /\ live = {} /\ used = {} /\ created = 0 /\ timestamp = 0
    /\ page = NoPage /\ trail = <<>> /\ failCause = "none"
    /\ filterLog = <<>> /\ normLog = <<>>
    /\ exportClicked = FALSE /\ newFile = FALSE /\ staleUsed = FALSE /\ staleWarned = FALSE
    /\ diag = "none" /\ snapshots = {} /\ interactions = <<>>
    /\ dirCsv = FALSE /\ rawCopies = {} /\ canonical = {} /\ canonWrites = 0
    /\ iterations = 0 /\ workflowStarts = 0 /\ gapSleeps = 0 /\ gapAtStart = 0
    /\ everResults = FALSE /\ everCompleted = FALSE /\ exitStatus = -1
    /\ located = 0 /\ picked = NoPick /\ out = NoTable /\ again = NoTable /\ skips = {}
    /\ AppOff
    /\ \/ /\ dpc = "dir"
          /\ listing \in Listings
          /\ target = "none" /\ doc = <<>> /\ raw = NoTable
       \/ /\ dpc = "doc"
          /\ target \in Targets
          /\ doc \in Documents(target)
          /\ listing = <<>> /\ raw = NoTable
       \/ /\ dpc = "raw"
          /\ raw \in RawTables(category)
          /\ listing = <<>> /\ target = "none" /\ doc = <<>>

\* the export locator looks the directory up
DLocate ==
    /\ dpc = "dir"
    /\ located' = Locate(category, listing)
    /\ dpc' = "located"
    /\ UNCHANGED <<progVars, appVars, listing, target, doc, picked, raw, out, again,
                   skips>>

\* a step resolves its target
DResolve ==
    /\ dpc = "doc"
    /\ picked' = Resolve(doc)
    /\ dpc' = "resolved"
    /\ UNCHANGED <<progVars, appVars, listing, located, target, doc, raw, out, again,
                   skips>>

\* process_csv_file on a raw export: it writes the canonical table and returns
\* True, or an exception ends it in `except` (return False) with no table
DNormalize ==
    /\ dpc = "raw"
    /\ IF Raises(category, raw)
       THEN out' = NoTable /\ dpc' = "failed"
       ELSE out' \in Normalizations(category, raw) /\ dpc' = "normalized"
    /\ skips' = SkipsLogged(category, raw)
    /\ UNCHANGED <<progVars, appVars, listing, located, target, doc, picked, raw, again>>

\* process_csv_file on the canonical table it wrote
DRenormalize ==
    /\ dpc = "normalized"
    /\ IF Raises(category, Reread(out))
       THEN again' = NoTable /\ dpc' = "failed"
       ELSE again' \in Normalizations(category, Reread(out)) /\ dpc' = "renormalized"
    /\ UNCHANGED <<progVars, appVars, listing, located, target, doc, picked, raw, out,
                   skips>>

DataNext == DLocate \/ DResolve \/ DNormalize \/ DRenormalize

DataSpec == DataInit /\ [][DataNext]_vars

\* ------------------------------------------------------- app.py: one request
\* the "Fetch Rates" button was pressed with some text in the ZIP code input,
\* an energy type selected and some files in output/
AppInit ==
    /\ category = "gas"
    /\ max_retries = MaxRetriesBound
    /\ zipcode = DefaultZipcode
    /\ pc = "app"
    /\ fin = "none"
    /\ main_retry = 0 /\ main_success = FALSE /\ retry_count = 0
    /\ attempt = 0 /\ success = FALSE
    /\ driver = NoDriver /\ live = {} /\ used = {} /\ created = 0 /\ timestamp = 0
    /\ page = NoPage /\ trail = <<>> /\ failCause = "none"
    /\ filterLog = <<>> /\ normLog = <<>>
    /\ exportClicked = FALSE /\ newFile = FALSE /\ staleUsed = FALSE /\ staleWarned = FALSE
    /\ diag = "none" /\ snapshots = {} /\ interactions = <<>>
    /\ dirCsv = FALSE /\ rawCopies = {} /\ canonical = {} /\ canonWrites = 0
    /\ iterations = 0 /\ workflowStarts = 0 /\ gapSleeps = 0 /\ gapAtStart = 0
    /\ everResults = FALSE /\ everCompleted = FALSE /\ exitStatus = -1
    /\ dpc = "off" /\ listing = <<>> /\ located = 0 /\ target = "none" /\ doc = <<>>
    /\ picked = NoPick /\ raw = NoTable /\ out = NoTable /\ again = NoTable /\ skips = {}
    /\ appPc = "button"
    /\ zipInput \in ZipInputs
    /\ energy_type \in EnergyTypes
    /\ disk \in Disks
    /\ procOutcome = "not_run" /\ lookups = 0 /\ latest_file = NoFile /\ view = "none"

\* if not zipcode.strip(): st.warning(...), else the try block is entered
AFetch ==
    /\ appPc = "button"
    /\ IF Strip(zipInput) = ""
       THEN view' = "warning" /\ appPc' = "done"
       ELSE view' = "spinner" /\ appPc' = "run"
    /\ UNCHANGED <<progVars, fnVars, zipInput, energy_type, disk, procOutcome, lookups,
                   latest_file>>

\* run_scraper(zipcode, energy_type, headless): the scraper of the selected
\* type runs to its end as a subprocess; an exception lands in
\* `except Exception`, which shows the error.  A scraper that exits 0 has
\* written its table; get_latest_csv finds out for itself whether the file is
\* there (wrote).
ARunScraper ==
    /\ appPc = "run"
    /\ \E outcome \in ProcOutcomes, wrote \in BOOLEAN :
         /\ procOutcome' = outcome
         /\ disk' = IF outcome = "exit_0" /\ wrote
                    THEN disk \cup ScraperOutput(energy_type, zipInput)
                    ELSE disk
         /\ IF run_scraper(outcome) = "returned"
            THEN appPc' = "locate" /\ UNCHANGED view
            ELSE appPc' = "done" /\ view' = "error"
    /\ UNCHANGED <<progVars, fnVars, zipInput, energy_type, lookups, latest_file>>

\* latest_file = get_latest_csv(zipcode, energy_type): FileNotFoundError when
\* nothing matches, caught by `except Exception`
AGetLatest ==
    /\ appPc = "locate"
    /\ lookups' = lookups + 1
    /\ LET files == Glob(disk, Prefix(energy_type), zipInput)
       IN IF files = {}
          THEN latest_file' = NoFile /\ appPc' = "done" /\ view' = "error"
          ELSE latest_file' \in Latest(files) /\ appPc' = "render" /\ UNCHANGED view
    /\ UNCHANGED <<progVars, fnVars, zipInput, energy_type, disk, procOutcome>>

\* pd.read_csv(latest_file), st.success, st.dataframe, st.download_button
ARender ==
    /\ appPc = "render"
    /\ view' = "table"
    /\ appPc' = "done"
    /\ UNCHANGED <<progVars, fnVars, zipInput, energy_type, disk, procOutcome, lookups,
                   latest_file>>

AppNext == AFetch \/ ARunScraper \/ AGetLatest \/ ARender

AppSpec == AppInit /\ [][AppNext]_vars

\* ======================================================================
\* Properties
\* ======================================================================
\* control points inside a workflow step (as opposed to the retry loops)
StepPcs == {"navigate", "zipcode", "filters", "export", "find", "process"}
\* the attempt record is closed: the attempt ended in Failed
AttemptFailed == trail # <<>> /\ Last(trail) = "Failed"
\* the state the attempt was in when it failed
FailedFrom == trail[Len(trail) - 1]
StagesOf(c) == IF c = "gas" THEN GasStages ELSE PowerStages

\* C1: in one invocation with maximum attempt count N the workflow (its
\* navigation step) is started at most N times in total.
C1_AtMostNWorkflowStarts == max_retries >= 0 => workflowStarts <= max_retries

\* C2: an attempt starts its navigation step only on a browser instance that
\* is live (created, not yet quit) and that no earlier attempt has used.
C2_FreshBrowserPerAttempt ==
    pc = "navigate" => (driver \in live /\ driver \notin used)

\* C3: the browser of an attempt is released on every exit path before the
\* next attempt starts or run returns: at most one browser is ever live, none
\* is live between attempts, after run() returned, or when the process exits.
C3_BrowserReleased ==
    /\ Cardinality(live) <= 1
    /\ (pc = "r_loop" /\ (retry_count > 0 \/ success)) => live = {}
    /\ pc \in {"m_finally", "m_loop", "p_loop", "after_try", "p_return", "p_crash", "done"}
         => live = {}

\* C3 witness: the invocation has exited after a failed attempt and a later
\* successful one, each with a browser of its own, and no browser is left.
C3_Witness ==
    pc = "done" /\ everCompleted /\ created >= 2 /\ live = {}

\* C4: between two consecutive attempts the supervisor sleeps exactly once,
\* whichever way the earlier attempt failed; it does not sleep before the
\* first attempt nor after the last one.
C4_OneSleepBetweenAttempts ==
    /\ iterations = 1 => gapAtStart = 0
    /\ iterations > 1 => gapAtStart = 1
    /\ pc = "done" => gapSleeps = 0

\* C5: the process exits with status 0 exactly when some attempt completed
\* every step including normalization, and with a non-zero status otherwise.
C5_ExitZeroIffCompleted ==
    pc = "done" => /\ exitStatus \in {0, 1}
                   /\ exitStatus = 0 <=> everCompleted

\* C5 witness: exit with status 0 after at least one failed attempt.
C5_Witness ==
    pc = "done" /\ exitStatus = 0 /\ iterations >= 2

\* C6: the canonical table is written only as the last effect of
\* normalization, after every other effect completed; a failed attempt writes
\* none; an invocation that exits 0 has written one for the requested code.
C6_CanonicalWrittenLast ==
    /\ "write" \in Range(normLog)
         => (normLog = StagesOf(category) /\ Last(normLog) = "write")
    /\ AttemptFailed => "write" \notin Range(normLog)
    /\ canonical # {} => everCompleted
    /\ exitStatus = 0 => \E f \in canonical : f.zip = zipcode

\* C6 witness: a gas invocation, for a postal code other than the default,
\* whose earlier attempt copied the raw export and then failed to normalize
\* it, has exited 0 with a canonical table.
C6_Witness ==
    /\ pc = "done" /\ exitStatus = 0 /\ zipcode # DefaultZipcode
    /\ Cardinality(rawCopies) >= 2 /\ canonical # {}

\* C7: when no attempt reaches the results page and the maximum attempt count
\* is 3, the run ends with exactly 3 attempts on record, no canonical table
\* and a non-zero exit status.
C7_ExhaustionAfterThreeAttempts ==
    (pc = "done" /\ max_retries = 3 /\ ~everResults)
        => (iterations = 3 /\ canonical = {} /\ exitStatus # 0)

\* C8: the four gas filter sub-steps are best-effort: once the filters are
\* being applied all four run, in order, whatever each of them met; a
\* sub-step's failure never fails the attempt (only the snapshot after them
\* can), and the attempt with its filters applied is at the export step.
C8_FilterStepsBestEffort ==
    /\ filterLog # <<>>
         => /\ Len(filterLog) = Len(FilterSteps)
            /\ \A i \in 1..Len(FilterSteps) : filterLog[i].step = FilterSteps[i]
            /\ \/ "FiltersApplied" \in Range(trail)
               \/ AttemptFailed /\ failCause = "snapshot_error"
    /\ (category = "gas" /\ trail # <<>> /\ Last(trail) = "FiltersApplied")
         => pc = "export"

\* C8 witness: the attempt is at the export step although its first and its
\* third filter sub-step failed.
C8_Witness ==
    /\ pc = "export" /\ filterLog # <<>>
    /\ filterLog[1].outcome = "failed" /\ filterLog[3].outcome = "failed"

\* C9: once an attempt has reached ResultsLoaded, filter application has no
\* failure transition of its own (beyond an unexpected snapshot or driver
\* error): the attempt reaches FiltersApplied, also when the results page was
\* recognised by its export control alone and carries no radio or checkbox.
C9_NoFailureFromResultsLoaded ==
    (AttemptFailed /\ Len(trail) >= 2 /\ FailedFrom = "ResultsLoaded")
        => failCause \in {"snapshot_error", "driver_error"}

\* the targets whose resolution or click is load-bearing
FatalCauses ==
    {"zip_unresolved", "submit_unresolved", "submit_click", "export_unresolved",
     "export_click"}

\* C10: failure to resolve the postal-code input, to resolve or click the
\* submit control, or to resolve or click the export control is fatal: the
\* attempt ends as failed, control is back in the retry loop and no later
\* step of the attempt runs, in particular no normalization.
C10_FatalStepsEndAttempt ==
    failCause \in FatalCauses
        => /\ AttemptFailed
           /\ pc \notin StepPcs
           /\ normLog = <<>> /\ ~success /\ "Completed" \notin Range(trail)
           /\ ~exportClicked /\ "Exported" \notin Range(trail)
           /\ failCause \in {"zip_unresolved", "submit_unresolved", "submit_click"}
                => (filterLog = <<>> /\ "ResultsLoaded" \notin Range(trail))

\* C10 witness: the export control could not be resolved although the results
\* page was reached; the attempt has failed and the retry loop is at its head
\* with budget left.
C10_Witness ==
    /\ failCause = "export_unresolved" /\ "ResultsLoaded" \in Range(trail)
    /\ pc \in {"r_loop", "p_loop"} /\ iterations < max_retries

\* C11: when invoking the export control produces no new export file, the
\* attempt fails: it neither goes on to normalization nor completes, also
\* when the directory already holds older .csv files.
C11_NoNewExportFailsAttempt ==
    (exportClicked /\ ~newFile)
        => (pc # "process" /\ normLog = <<>> /\ "Completed" \notin Range(trail))

\* C12: the export locator returns a .csv file that no other .csv file of the
\* directory exceeds in modification time, whatever files of other types are
\* there, and reports not-found exactly when the directory holds no .csv file.
C12_LocatorNewestCsv ==
    dpc = "located" =>
        /\ located = 0 <=> ~\E i \in 1..Len(listing) : listing[i].ext = "csv"
        /\ located # 0 =>
             /\ located \in 1..Len(listing)
             /\ listing[located].ext = "csv"
             /\ \A i \in 1..Len(listing) :
                    listing[i].ext = "csv" => listing[i].mtime <= listing[located].mtime

\* C12 witness: the newest file of the directory is a screenshot, an older and
\* a newer .csv precede it, and the locator returned the newer .csv.
C12_Witness ==
    /\ dpc = "located" /\ Len(listing) = 3
    /\ listing[1].ext = "csv" /\ listing[2].ext = "csv" /\ listing[3].ext = "png"
    /\ listing[1].mtime < listing[2].mtime /\ listing[2].mtime < listing[3].mtime
    /\ located = 2

\* C13: for both categories, when the newest export file found after the
\* export control fired is older than one minute, a warning is logged for it
\* and the file is still used: an attempt that found a stale file fails, if at
\* all, in normalization.
C13_StaleWarnedAndUsed ==
    staleUsed =>
        /\ staleWarned
        /\ AttemptFailed => failCause = "normalization_error"

\* C14: a fallback chain resolves to the element of the earliest strategy, in
\* declared order, that finds one, also when a later strategy finds another
\* element; it evaluates a later strategy only when every earlier one found
\* nothing; when only the last strategy matches, its element is returned; when
\* none matches there is no element.
C14_EarliestStrategyWins ==
    dpc = "resolved" =>
        /\ \A i \in 1..Len(doc) :
               (doc[i] # 0 /\ \A j \in 1..(i - 1) : doc[j] = 0)
                   => (picked.elem = doc[i] /\ picked.tried = i)
        /\ (\A i \in 1..Len(doc) : doc[i] = 0) => (picked.elem = 0 /\ picked.tried = Len(doc))
        /\ \A j \in 1..(picked.tried - 1) : doc[j] = 0

\* C14 witness: the first strategy of the submit-control chain finds nothing,
\* the second and the third find different elements, and the second one's
\* element was used without the third being evaluated.
C14_Witness ==
    /\ dpc = "resolved" /\ target = "submit_button"
    /\ doc[1] = 0 /\ doc[2] = 2 /\ doc[3] = 1
    /\ picked = [elem |-> 2, tried |-> 2]

\* C14, the fallback case: only the last strategy of the export chain matches.
C14_WitnessFallback ==
    /\ dpc = "resolved" /\ target = "power_export_button"
    /\ doc[1] = 0 /\ doc[2] = 0 /\ doc[3] = 1
    /\ picked = [elem |-> 1, tried |-> 3]

\* process_csv_file has written the canonical table `out` for `raw`
Normalized == dpc \in {"normalized", "renormalized"}
\* the row passes every predicate whose column the table has; a Cancellation
\* Fee is blank when there is nothing to read in the cell (it is empty or
\* holds a marker read_csv takes for a missing value)
Satisfies(cat, t, r) ==
    /\ HasCol(t, "Service Type") => r.cells["Service Type"] = "Residential"
    /\ HasCol(t, "Type") => r.cells["Type"] = "Fixed"
    /\ HasCol(t, "Monthly Fee") => r.cells["Monthly Fee"] = "No"
    /\ cat = "gas" =>
         /\ HasCol(t, "Cancellation Fee") => r.cells["Cancellation Fee"] \in NaTexts
         /\ HasCol(t, "Discounts/Incentives Available")
              => r.cells["Discounts/Incentives Available"] = "No"
SatisfyingIds(cat, t) == {i \in 1..Len(t.rows) : Satisfies(cat, t, t.rows[i])}
RowIds(t) == {t.rows[k].id : k \in 1..Len(t.rows)}
PriceOf(r) == ToNumeric(r.cells["Price"])

\* C15: the rows of the normalized table are exactly the input rows that
\* satisfy every applicable predicate (a predicate applies only when its
\* column is present): each such row appears once, no other row appears, and
\* the cells a row keeps are those it had (Price apart, which is coerced).
C15_ExactlySatisfyingRows ==
    Normalized =>
        /\ RowIds(out) = SatisfyingIds(category, raw)
        /\ Len(out.rows) = Cardinality(SatisfyingIds(category, raw))
        /\ \A k \in 1..Len(out.rows) :
               \A c \in (Range(out.cols) \cap Range(raw.cols)) \ {"Price"} :
                   out.rows[k].cells[c] = raw.rows[out.rows[k].id].cells[c]

\* C15 witness: a gas export without a Service Type column, three rows, one of
\* them with a numeric Cancellation Fee: that row alone was dropped.
C15_Witness ==
    /\ dpc = "normalized" /\ category = "gas" /\ ~HasCol(raw, "Service Type")
    /\ Len(raw.rows) = 3 /\ Len(out.rows) = 2
    /\ raw.rows[2].cells["Cancellation Fee"] = "50"
    /\ RowIds(out) = {1, 3}

\* C16: in the normalized table the Price values of consecutive rows are
\* non-decreasing, no row with a number follows a row without one, and every
\* surviving row whose Price is not a number is in the table, without one.
C16_PriceAscendingUnparseableLast ==
    (Normalized /\ HasCol(out, "Price")) =>
        /\ \A k \in 1..(Len(out.rows) - 1) :
               LET a == PriceOf(out.rows[k])
                   b == PriceOf(out.rows[k + 1])
               IN /\ (~a.nan /\ ~b.nan) => a.n <= b.n
                  /\ a.nan => b.nan
        /\ \A i \in SatisfyingIds(category, raw) :
               PriceOf(raw.rows[i]).nan
                   => \E k \in 1..Len(out.rows) :
                          out.rows[k].id = i /\ PriceOf(out.rows[k]).nan

\* C16 witness: the export listed an unparseable Price first, then 5, then 3;
\* the table has them as 3, 5 and the unparseable one last.
C16_Witness ==
    /\ dpc = "normalized" /\ Len(out.rows) = 3 /\ HasCol(out, "Price")
    /\ out.rows[1].id = 3 /\ out.rows[2].id = 2 /\ out.rows[3].id = 1
    /\ raw.rows[1].cells["Price"] = "call"
    /\ out.rows[1].cells["Price"] = "3" /\ out.rows[2].cells["Price"] = "5"
    /\ out.rows[3].cells["Price"] = ""

\* C17: the gas output never has the column "Cancellation Fee", although the
\* column filtered the rows; the electricity output never has any of PA Wind,
\* Renewable Energy, Contact Phone Number.
C17_RemovedColumnsAbsent ==
    Normalized =>
        /\ category = "gas" => ~HasCol(out, "Cancellation Fee")
        /\ category = "power" => \A c \in Range(PowerRemoved) : ~HasCol(out, c)

\* C17 witness: a gas export with a Cancellation Fee column that cost one of
\* its two rows; the surviving row was written without the column.
C17_Witness ==
    /\ dpc = "normalized" /\ category = "gas" /\ HasCol(raw, "Cancellation Fee")
    /\ Len(raw.rows) = 2 /\ Len(out.rows) = 1
    /\ raw.rows[1].cells["Cancellation Fee"] = "50"
    /\ HasCol(raw, "Service Type") /\ HasCol(out, "Supplier")

\* C18: for both categories, whenever the raw export has a "More info"
\* column, "More info" is the last column of the normalized table.
C18_MoreInfoLast ==
    (Normalized /\ HasCol(raw, "More info"))
        => (out.cols # <<>> /\ Last(out.cols) = "More info")

\* C19: for both categories, when the raw export has a "More info" column the
\* normalized table has a "New Customers only" column that is "Yes" in a row
\* exactly when that row's More info text contains "for new customers" in any
\* letter case, and "No" otherwise, also for a blank text; when "More info" is
\* absent the derived column is omitted.
C19_NewCustomersOnlyDerived ==
    Normalized =>
        /\ HasCol(raw, "More info") =>
             /\ HasCol(out, "New Customers only")
             /\ \A k \in 1..Len(out.rows) :
                    out.rows[k].cells["New Customers only"]
                        = NewCustomersOnly(raw.rows[out.rows[k].id].cells["More info"])
        /\ ~HasCol(raw, "More info") => ~HasCol(out, "New Customers only")

\* C20: normalization is idempotent: applied to its own output it yields the
\* same columns in the same order and the same rows in the same order, also
\* when several rows tie on Price.
C20_NormalizationIdempotent ==
    dpc = "renormalized" =>
        /\ again.cols = out.cols
        /\ Len(again.rows) = Len(out.rows)
        /\ \A k \in 1..Len(out.rows) : again.rows[k].cells = out.rows[k].cells

\* process_csv_file has run on `raw`, whatever it returned
NormalizationRan == dpc \in {"normalized", "renormalized", "failed"}
\* the priority columns table t has, in priority order
Leading(t) == SelectSeq(PriorityColumns, LAMBDA c : HasCol(t, c))
\* the columns normalization itself places: the derived one, and "More info"
Placed == {"More info", "New Customers only"}

\* C21: in the normalized table the columns Supplier, Price, Term Length come
\* first, in that order, followed by the remaining kept columns in their
\* original relative order; for both categories, and also when only some of
\* the three are present in the input (those present lead).
C21_PriorityColumnsLead ==
    Normalized =>
        /\ Leading(out) = Leading(raw)
        /\ SubSeq(out.cols, 1, Len(Leading(out))) = Leading(out)
        /\ SelectSeq(out.cols, LAMBDA c : c \notin Range(PriorityColumns) \cup Placed)
             = SelectSeq(raw.cols, LAMBDA c : /\ HasCol(out, c)
                                              /\ c \notin Range(PriorityColumns) \cup Placed)

\* the steps of process_csv_file that depend on an optional column
OptionalSteps(cat) ==
    IF cat = "gas"
    THEN {"Service Type", "Type", "Monthly Fee", "Cancellation Fee",
          "Discounts/Incentives Available", "Price", "More info"}
    ELSE {"Service Type", "Type", "Monthly Fee", "Price", "More info"}

\* C22: whichever optional columns a readable export lacks, normalization
\* completes and writes an output; each step whose column is absent is skipped
\* with a logged skip, and the other steps are applied unchanged.
C22_MissingColumnsSkippedAndLogged ==
    (NormalizationRan /\ SatisfyingIds(category, raw) # {}) =>
        /\ Normalized
        /\ RowIds(out) = SatisfyingIds(category, raw)
        /\ \A c \in OptionalSteps(category) : ~HasCol(raw, c) => c \in skips

\* C23: when a readable export has rows but none survives the filters,
\* normalization succeeds: a canonical table with the header and zero rows is
\* written (so the attempt completes, nothing is retried, the exit status
\* is 0).
C23_NoSurvivorsStillSucceeds ==
    (NormalizationRan /\ raw.rows # <<>> /\ SatisfyingIds(category, raw) = {}) =>
        /\ Normalized
        /\ out.rows = <<>> /\ out.cols # <<>>

\* the ways a workflow step fails: target unresolved, click failed, wait
\* timed out, no export file found
StepFailureCauses ==
    {"zip_unresolved", "submit_unresolved", "export_unresolved", "submit_click",
     "export_click", "shop_timeout", "results_timeout", "filter_wait_timeout", "no_csv"}

\* C26: every failure exit of a workflow step (target unresolved, click failed
\* by both mechanisms, wait timed out, no export file found) captures a
\* diagnostic snapshot before the failure is returned to the retry loop.
C26_FailureExitsSnapshot ==
    (AttemptFailed /\ failCause \in StepFailureCauses) => diag # "unsaved"

\* the states an attempt enters by a successful transition
TransitionStates ==
    {"ShopPageLoaded", "CodeSubmitted", "ResultsLoaded", "FiltersApplied", "Exported"}

\* C27: in every attempt each successful state transition (shop page loaded,
\* code submitted, results loaded, filters applied, exported) persists a
\* snapshot of the page before the next step begins (unless that snapshot is
\* what failed the attempt).
C27_TransitionsSnapshot ==
    \A s \in Range(trail) \cap TransitionStates :
        \/ s \in snapshots
        \/ AttemptFailed /\ failCause = "snapshot_error" /\ FailedFrom = s

\* C28: every set-value and click on a target first tries the native
\* mechanism and uses the script-based fallback only after the native one
\* raised; a click is reported as failed only when both mechanisms failed.
C28_NativeBeforeScript ==
    /\ \A i \in 1..Len(interactions) :
           /\ interactions[i].native # "untried"
           /\ interactions[i].script # "untried" => interactions[i].native = "raised"
    /\ failCause \in {"submit_click", "export_click"}
         => /\ interactions # <<>>
            /\ Last(interactions).native = "raised"
            /\ Last(interactions).script = "raised"

\* the states of an attempt, in workflow order
StateOrder ==
    <<"Start", "ShopPageLoaded", "CodeSubmitted", "ResultsLoaded", "FiltersApplied",
      "Exported", "Completed">>
\* the states of the electricity workflow, which is entered at the results
\* page
PowerStateOrder == <<"Start", "ResultsLoaded", "FiltersApplied", "Exported", "Completed">>
\* the states the attempt has visited, Failed apart
Visited == IF AttemptFailed THEN SubSeq(trail, 1, Len(trail) - 1) ELSE trail
IsPrefix(s, t) == Len(s) <= Len(t) /\ SubSeq(t, 1, Len(s)) = s
\* the attempt is over (or none has begun)
AttemptOver == pc \notin StepPcs

C30_CanonicalWrittenOnce ==
    /\ canonWrites <= 1
    /\ canonWrites = 1
         => (success /\ pc \notin StepPcs /\ Cardinality(canonical) = 1)

\* C30 witness: the invocation has exited with one write on record, made by an
\* attempt that followed two failed ones.
C30_Witness ==
    pc = "done" /\ canonWrites = 1 /\ iterations = 3

\* the scraper subprocess was run and did not exit 0, or never started
ScraperFailed == procOutcome \in {"exit_nonzero", "not_started"}
\* the canonical tables in output/ named for the requested category prefix and
\* the requested postal code
Candidates ==
    {f \in disk : /\ f.kind = "filtered"
                  /\ f.prefix = (IF energy_type = "Gas" THEN "pagasswitch"
                                  ELSE "papowerswitch")
                  /\ f.zip = zipInput}

\* C24: the presentation layer treats the scraper run as all-or-nothing: when
\* the scraper exits with a non-zero status or cannot be started, it shows an
\* error and neither locates nor renders a canonical table, even when an
\* older table for the same postal code and category is on disk.
C24_ScraperFailureShowsError ==
    ScraperFailed =>
        /\ appPc = "done" /\ view = "error"
        /\ lookups = 0 /\ latest_file = NoFile

\* C24 witness: the scraper exited non-zero while an older canonical table for
\* the requested postal code and category was on disk; the error is shown.
C24_Witness ==
    procOutcome = "exit_nonzero" /\ view = "error" /\ Candidates # {}

\* C25: after a successful scraper run the presentation layer renders the
\* canonical table with the latest creation time among the files named for
\* the requested category prefix and postal code; it never returns a file of
\* the other category or of another postal code, and raises not-found when
\* there is no such file.
C25_LatestMatchingTable ==
    (procOutcome = "exit_0" /\ appPc \in {"render", "done"}) =>
        /\ lookups = 1
        /\ Candidates = {} => (latest_file = NoFile /\ view = "error")
        /\ Candidates # {} =>
             /\ latest_file \in Candidates
             /\ \A g \in Candidates : g.ctime <= latest_file.ctime
             /\ appPc = "done" => view = "table"

\* C25 witness: output/ held an older table for the request and a newer table
\* of the other category for the same postal code; the table the scraper just
\* wrote is rendered.
C25_Witness ==
    /\ view = "table" /\ Cardinality(Candidates) = 2
    /\ \E g \in disk \ Candidates :
           /\ g.kind = "filtered" /\ g.zip = zipInput
           /\ \E f \in Candidates : f.ctime < g.ctime

\* C32: in the gas workflow, once the submit control was clicked, the attempt
\* reaches ResultsLoaded exactly when the results page shows an export control
\* or a radio/checkbox input within the waits; it fails with the results
\* timeout only when the page shows neither.
C32_ResultsLoadedIffControl ==
    (category = "gas" /\ page.loaded) =>
        /\ ("ResultsLoaded" \in Range(trail)) <=> (page.exp \/ page.flt)
        /\ failCause = "results_timeout" => (~page.exp /\ ~page.flt)

\* C32 witness: the results page carried a filter control and no export
\* control, and the attempt reached ResultsLoaded.
C32_Witness ==
    /\ category = "gas" /\ page.loaded /\ ~page.exp /\ page.flt
    /\ "ResultsLoaded" \in Range(trail)

\* the control points inside run() of the gas scraper
GasRunPcs == {"r_loop", "navigate", "zipcode", "filters", "export", "process",
              "except", "finally"}

\* C33: a gas scraper instance has the one browser its constructor created;
\* run() quits it at the end of every inner attempt, so every inner attempt
\* after a failed one runs on a quit browser and fails before the shop page is
\* loaded, and run() returns success only from its first inner attempt.
C33_OnlyFirstInnerAttemptCanSucceed ==
    (category = "gas" /\ pc \in GasRunPcs) =>
        /\ driver = created
        /\ (pc = "r_loop" /\ (retry_count > 0 \/ success)) => driver \notin live
        /\ (pc = "navigate" /\ retry_count > 0) => driver \notin live
        /\ pc \in {"zipcode", "filters", "export", "process"} => retry_count = 0
        /\ (retry_count >= 2 /\ pc # "navigate") => trail = <<"Start", "Failed">>
        /\ success => retry_count = 0

\* C33 witness: the second inner attempt of an instance has failed at the load
\* of the shop page, on the browser the first one quit.
C33_Witness ==
    /\ category = "gas" /\ pc = "r_loop" /\ retry_count = 2
    /\ trail = <<"Start", "Failed">> /\ driver \in used /\ driver \notin live

\* C35: once an attempt has completed, no further attempt is begun, no browser
\* is created, no navigation is started and no retry delay is slept.
C35_LoopStopsOnSuccess ==
    [][everCompleted =>
          /\ iterations' = iterations /\ created' = created
          /\ workflowStarts' = workflowStarts /\ gapSleeps' = gapSleeps]_vars

\* C35 witness: the invocation exited after its first attempt completed, with
\* the rest of the retry budget unused.
C35_Witness ==
    /\ pc = "done" /\ everCompleted /\ exitStatus = 0
    /\ iterations = 1 /\ max_retries >= 2

\* C36: whenever a canonical table with run timestamp T exists, the raw export
\* copy with timestamp T exists.
C36_CanonicalImpliesRawCopy ==
    \A f \in canonical : f.ts \in rawCopies

\* C36 witness: a failed normalization left a raw copy without a canonical
\* table, and a later instance wrote both.
C36_Witness ==
    /\ canonical # {}
    /\ \E t \in rawCopies : \A f \in canonical : f.ts # t

\* C37: a failure while capturing a diagnostic snapshot or markup dump never
\* leaves the retry loop: no exception escapes run().
C37_SnapshotFailureStaysInLoop ==
    fin # "escape" /\ pc # "p_crash"

\* C38: with an empty or whitespace-only postal code the presentation layer
\* shows a warning and stops: no scraper subprocess is run and no file is
\* looked up.
C38_BlankZipWarns ==
    (zipInput \in {"", " "} /\ appPc \in {"run", "locate", "render", "done"}) =>
        /\ appPc = "done" /\ view = "warning"
        /\ procOutcome = "not_run" /\ lookups = 0 /\ latest_file = NoFile

\* C38 witness: the button was pressed with a blank in the input while
\* output/ held files; the warning is shown.
C38_Witness ==
    zipInput = " " /\ view = "warning" /\ appPc = "done" /\ disk # {}

C34_RawExportIsADownload ==
    (dpc = "located" /\ located # 0) => listing[located].by = "site"

\* the retry budget is used up: the loop condition of main() (gas), the range
\* of the for loop of run() (power)
Exhausted ==
    IF category = "gas" THEN main_retry >= max_retries ELSE attempt >= max_retries

\* C31: every invocation eventually terminates, with success (an attempt
\* completed) or with exhaustion (the retry budget used up).
C31_TerminatesSuccessOrExhaustion ==
    <>(pc = "done" /\ (everCompleted \/ Exhausted))

====
